---- MODULE Spec2Model ----
(***************************************************************************)
(* takt: a command line time tracker.  Model of the record store           *)
(* (FileManager in takt.py, load_csv/save_csv in main.py), the check       *)
(* command, the period key functions, Aggregator.calculate and the         *)
(* HH:MM formatting of the summary table.                                  *)
(*                                                                         *)
(* Text (period keys, notes, table cells) is a sequence of one-character   *)
(* strings, so that formatting, trimming and the lexicographic sort of     *)
(* keys are computed and not assumed.  A timestamp is the record           *)
(* [y, m, d, s] (s = second of the day); a duration in hours is the exact  *)
(* rational [n, d] = n/d (the code uses binary floating point; the model   *)
(* computes with exact values).                                            *)
(***************************************************************************)
EXTENDS Integers, Sequences, FiniteSets, TLC

VARIABLES
    file,      \* takt.py: rows of the CSV at FILE_NAME as written, newest first
    fexists,   \* takt.py: whether that CSV exists
    mfile,     \* main.py: rows of records.csv, newest first
    mexists,   \* main.py: whether records.csv exists
    input,     \* the list handed to Aggregator.calculate, as it was at the call
    records,   \* that same list object after the call (infer_last_out inserts into it)
    out,       \* the list of aggregate rows returned (summary_dict)
    err,       \* the exception the last command ended with, or "none"
    last,      \* the last command and its arguments
    nchecks,   \* takt.py check commands run since the file was empty or missing
    mchecks,   \* main.py check commands run since the file was empty or missing
    console,   \* what the last command printed
    procs,     \* the invocations that run step by step: position and locals
    log        \* the steps those invocations have taken, in order

vars == <<file, fexists, mfile, mexists, input, records, out, err, last,
          nchecks, mchecks, console, procs, log>>

----------------------------------------------------------------------------
(* Bounds *)

MaxRecords == 4

----------------------------------------------------------------------------
(* Text *)

Ord(c) ==
    CASE c = " " -> 32
      [] c = "-" -> 45
      [] c = "0" -> 48 [] c = "1" -> 49 [] c = "2" -> 50 [] c = "3" -> 51
      [] c = "4" -> 52 [] c = "5" -> 53 [] c = "6" -> 54 [] c = "7" -> 55
      [] c = "8" -> 56 [] c = "9" -> 57
      [] c = ":" -> 58
      [] c = "M" -> 77
      [] c = "W" -> 87
      [] c = "a" -> 97
      [] c = "b" -> 98

\* str < str of Python: lexicographic by code point
RECURSIVE StrLess(_, _)
StrLess(a, b) ==
    IF b = <<>> THEN FALSE
    ELSE IF a = <<>> THEN TRUE
    ELSE IF Ord(Head(a)) # Ord(Head(b)) THEN Ord(Head(a)) < Ord(Head(b))
    ELSE StrLess(Tail(a), Tail(b))

DigitChar(k) == <<"0", "1", "2", "3", "4", "5", "6", "7", "8", "9">>[k + 1]

RECURSIVE NatStr(_)
NatStr(n) == IF n < 10 THEN <<DigitChar(n)>>
             ELSE NatStr(n \div 10) \o <<DigitChar(n % 10)>>

\* str(n) of an int
Str(n) == IF n < 0 THEN <<"-">> \o NatStr(-n) ELSE NatStr(n)

RECURSIVE Zeros(_)
Zeros(k) == IF k <= 0 THEN <<>> ELSE <<"0">> \o Zeros(k - 1)

\* str.zfill(width): zeros after the sign, up to the width
zfill(s, width) ==
    IF Len(s) >= width THEN s
    ELSE IF s # <<>> /\ Head(s) = "-"
         THEN <<"-">> \o Zeros(width - Len(s)) \o Tail(s)
         ELSE Zeros(width - Len(s)) \o s

\* f"{n:02d}", f"{n:04d}"
Fmt0d(n, width) == zfill(Str(n), width)

\* str.strip(): drop leading and trailing blanks
RECURSIVE LStrip(_)
LStrip(s) == IF s # <<>> /\ Head(s) = " " THEN LStrip(Tail(s)) ELSE s

RECURSIVE RStrip(_)
RStrip(s) == IF s # <<>> /\ s[Len(s)] = " "
             THEN RStrip(SubSeq(s, 1, Len(s) - 1)) ELSE s

Strip(s) == RStrip(LStrip(s))

----------------------------------------------------------------------------
(* Calendar: the datetime arithmetic the period keys and durations rest on *)

IsLeap(y) == y % 4 = 0 /\ (y % 100 # 0 \/ y % 400 = 0)

DaysBeforeMonth(y, m) ==
    <<0, 31, 59, 90, 120, 151, 181, 212, 243, 273, 304, 334>>[m]
    + (IF m > 2 /\ IsLeap(y) THEN 1 ELSE 0)

DaysBeforeYear(y) ==
    (y - 1) * 365 + (y - 1) \div 4 - (y - 1) \div 100 + (y - 1) \div 400

\* date.toordinal(): 0001-01-01 is day 1
ToOrdinal(t) == DaysBeforeYear(t.y) + DaysBeforeMonth(t.y, t.m) + t.d

\* day of the week with Sunday = 0 (tm_wday)
WDay(t) == ToOrdinal(t) % 7

\* day of the year from 0 (tm_yday)
YDay(t) == DaysBeforeMonth(t.y, t.m) + t.d - 1

\* strftime("%U"): week of the year, weeks start on Sunday, the days before
\* the first Sunday are week 0
WeekU(t) == (YDay(t) + 7 - WDay(t)) \div 7

\* timestamp.date()
DateOf(t) == [y |-> t.y, m |-> t.m, d |-> t.d]

\* date.isoformat()
IsoFormat(t) == Fmt0d(t.y, 4) \o <<"-">> \o Fmt0d(t.m, 2) \o <<"-">> \o Fmt0d(t.d, 2)

\* (a - b).total_seconds()
TotalSeconds(a, b) == (ToOrdinal(a) - ToOrdinal(b)) * 86400 + (a.s - b.s)

\* a < b on timestamps
TsLess(a, b) == TotalSeconds(a, b) < 0

Ts(y, m, d, h, mi) == [y |-> y, m |-> m, d |-> d, s |-> h * 3600 + mi * 60]

----------------------------------------------------------------------------
(* Period keys *)

DailyRef_group(timestamp) == IsoFormat(timestamp)

WeekRef_group(timestamp) ==
    Str(timestamp.y) \o <<"-", "W">> \o Fmt0d(WeekU(timestamp), 2)

YearRef_group(timestamp) == Str(timestamp.y)

MonthRef_group(timestamp) ==
    Str(timestamp.y) \o <<"-", "M">> \o Fmt0d(timestamp.m, 2)

Periods == {"daily", "wtd", "mtd", "ytd"}

time_agg(period, timestamp) ==
    CASE period = "wtd" -> WeekRef_group(timestamp)
      [] period = "ytd" -> YearRef_group(timestamp)
      [] period = "mtd" -> MonthRef_group(timestamp)
      [] period = "daily" -> DailyRef_group(timestamp)

----------------------------------------------------------------------------
(* Hours: exact rationals n/d, d > 0 *)

SECONDS_TO_HOURS == [n |-> 1, d |-> 3600]

Rat(n, d) == [n |-> n, d |-> d]
RatMul(k, r) == [n |-> k * r.n, d |-> r.d]
RatAdd(a, b) == IF a.d = b.d THEN [n |-> a.n + b.n, d |-> a.d]
                ELSE [n |-> a.n * b.d + b.n * a.d, d |-> a.d * b.d]
RatSub(a, b) == RatAdd(a, [n |-> -b.n, d |-> b.d])
RatDivInt(a, k) == [n |-> a.n, d |-> a.d * k]
RatEq(a, b) == a.n * b.d = b.n * a.d
RatZero == [n |-> 0, d |-> 1]

\* int(x): truncation toward zero
Trunc(r) == IF r.n >= 0 THEN r.n \div r.d ELSE -((-r.n) \div r.d)

----------------------------------------------------------------------------
(* Records and the instants of the model *)

Kinds == {"in", "out"}

Record(timestamp, kind, notes) ==
    [timestamp |-> timestamp, kind |-> kind, notes |-> notes]

\* Friday 2021-12-31 at 08:00, Saturday 2022-01-01 and Sunday 2022-01-02 at
\* 07:00 and 08:00
Times ==
    {Ts(2021, 12, 31, 8, 0),
     Ts(2022, 1, 1, 7, 0), Ts(2022, 1, 1, 8, 0),
     Ts(2022, 1, 2, 7, 0), Ts(2022, 1, 2, 8, 0)}

\* the values pd.Timestamp.now() takes when a summary is asked for
Nows == {Ts(2022, 1, 2, 9, 0), Ts(2022, 1, 3, 7, 30)}

InferredNote ==
    <<"I", "n", "f", "e", "r", "r", "e", "d", " ", "b", "y", " ",
      "t", "a", "k", "t", ".">>

\* all lists of at most n elements of S
RECURSIVE SeqsUpTo(_, _)
SeqsUpTo(S, n) ==
    IF n = 0 THEN {<<>>}
    ELSE LET shorter == SeqsUpTo(S, n - 1)
         IN shorter \cup {Append(q, x) : q \in {r \in shorter : Len(r) = n - 1}, x \in S}

----------------------------------------------------------------------------
(* Aggregator *)

\* infer_last_out with records.append in place of records.insert(0, ...)
infer_last_out_append(recs, now) ==
    IF recs[1].kind = "in"
    THEN recs \o <<Record(now, "out", InferredNote)>>
    ELSE recs

\* infer_last_out stamping the closing out with the time of the first record
infer_last_out_stale(recs, now) ==
    IF recs[1].kind = "in"
    THEN <<Record(recs[1].timestamp, "out", InferredNote)>> \o recs
    ELSE recs

\* records[0][KIND] of an empty list raises IndexError
infer_last_out(recs, now) ==
    IF recs[1].kind = "in"
    THEN <<Record(now, "out", InferredNote)>> \o recs
    ELSE recs

\* the row with the operands of the subtraction exchanged
pair_row_swapped(period, record, last_in_time, last_out_time) ==
    [group |-> time_agg(period, record.timestamp),
     hours |-> RatMul(TotalSeconds(last_in_time, last_out_time), SECONDS_TO_HOURS),
     dates |-> <<DateOf(record.timestamp)>>,
     notes |-> <<record.notes>>]

\* the row appended when both last_in_time and last_out_time are set
pair_row(period, record, last_in_time, last_out_time) ==
    [group |-> time_agg(period, record.timestamp),
     hours |-> RatMul(TotalSeconds(last_out_time, last_in_time), SECONDS_TO_HOURS),
     dates |-> <<DateOf(record.timestamp)>>,
     notes |-> <<record.notes>>]

\* the for loop of calculate without the reset of last_in_time and
\* last_out_time after a row is appended
RECURSIVE PairLoop_noreset(_, _, _, _, _, _)
PairLoop_noreset(period, recs, i, last_in_time, last_out_time, row_collection) ==
    IF i > Len(recs) THEN row_collection
    ELSE
      LET record == recs[i]
          timestamp == record.timestamp
          li == IF record.kind = "in" THEN <<timestamp>> ELSE last_in_time
          lo == IF record.kind = "in" THEN last_out_time ELSE <<timestamp>>
      IN IF li # <<>> /\ lo # <<>>
         THEN PairLoop_noreset(period, recs, i + 1, li, lo,
                Append(row_collection, pair_row(period, record, li[1], lo[1])))
         ELSE PairLoop_noreset(period, recs, i + 1, li, lo, row_collection)

\* the for loop of calculate from record i on; last_in_time and last_out_time
\* are <<>> for None and <<t>> for a timestamp; the result is row_collection
RECURSIVE PairLoop(_, _, _, _, _, _)
PairLoop(period, recs, i, last_in_time, last_out_time, row_collection) ==
    IF i > Len(recs) THEN row_collection
    ELSE
      LET record == recs[i]
          timestamp == record.timestamp
          li == IF record.kind = "in" THEN <<timestamp>> ELSE last_in_time
          lo == IF record.kind = "in" THEN last_out_time ELSE <<timestamp>>
      IN IF li # <<>> /\ lo # <<>>
         THEN PairLoop(period, recs, i + 1, <<>>, <<>>,
                Append(row_collection, pair_row(period, record, li[1], lo[1])))
         ELSE PairLoop(period, recs, i + 1, li, lo, row_collection)

\* the same loop, for the values last_in_time and last_out_time have when
\* the loop has taken the records from i to the end of recs
RECURSIVE LoopVars(_, _, _, _)
LoopVars(recs, i, last_in_time, last_out_time) ==
    IF i > Len(recs)
    THEN [last_in_time |-> last_in_time, last_out_time |-> last_out_time]
    ELSE
      LET record == recs[i]
          timestamp == record.timestamp
          li == IF record.kind = "in" THEN <<timestamp>> ELSE last_in_time
          lo == IF record.kind = "in" THEN last_out_time ELSE <<timestamp>>
      IN IF li # <<>> /\ lo # <<>>
         THEN LoopVars(recs, i + 1, <<>>, <<>>)
         ELSE LoopVars(recs, i + 1, li, lo)

Range(q) == {q[i] : i \in DOMAIN q}

\* the rows of one group, in their order
RowsOf(rows, g) == SelectSeq(rows, LAMBDA r : r.group = g)

RECURSIVE SumHours(_)
SumHours(rows) ==
    IF rows = <<>> THEN RatZero
    ELSE IF Len(rows) = 1 THEN rows[1].hours
    ELSE RatAdd(rows[1].hours, SumHours(Tail(rows)))

RECURSIVE ConcatDates(_)
ConcatDates(rows) ==
    IF rows = <<>> THEN <<>> ELSE rows[1].dates \o ConcatDates(Tail(rows))

RECURSIVE ConcatNotes(_)
ConcatNotes(rows) ==
    IF rows = <<>> THEN <<>> ELSE rows[1].notes \o ConcatNotes(Tail(rows))

\* table.groupby("group").sum() for the rows of one group: hours added, the
\* date and note lists concatenated
GroupBySum(mine) ==
    [hours |-> SumHours(mine),
     dates |-> ConcatDates(mine),
     notes |-> ConcatNotes(mine)]

\* the group keys as groupby leaves them, smallest first
RECURSIVE SortIndexAsc(_)
SortIndexAsc(S) ==
    IF S = {} THEN <<>>
    ELSE LET low == CHOOSE x \in S : \A y \in S : ~StrLess(y, x)
         IN <<low>> \o SortIndexAsc(S \ {low})

\* summ.sort_index(ascending=False): the group keys, largest first
RECURSIVE SortIndexDesc(_)
SortIndexDesc(S) ==
    IF S = {} THEN <<>>
    ELSE LET top == CHOOSE x \in S : \A y \in S : ~StrLess(x, y)
         IN <<top>> \o SortIndexDesc(S \ {top})

\* one row of the frame: the sets of dates and notes and the average
summ_row(g, total, dates, notes) ==
    [group |-> g,
     hours |-> total,
     dates |-> dates,
     notes |-> notes,
     avg_hours |-> RatDivInt(total, Cardinality(dates))]

\* the rows of the frame in the order of index
summ_rows(row_collection, index) ==
    [k \in 1..Len(index) |->
        LET summ == GroupBySum(RowsOf(row_collection, index[k]))
        IN summ_row(index[k], summ.hours, Range(summ.dates), Range(summ.notes))]

\* the frame after groupby, sort, set conversion and average, as records; an
\* empty row_collection gives an empty frame and no rows
Summarize(row_collection) ==
    summ_rows(row_collection, SortIndexDesc({r.group : r \in Range(row_collection)}))

\* Aggregator(period).calculate(recs) when pd.Timestamp.now() is now:
\* the exception raised (or "none"), the rows returned, and the list recs
\* as the call leaves it
calculate(period, recs, now) ==
    IF recs = <<>>
    THEN [err |-> "IndexError", rows |-> <<>>, records |-> recs]
    ELSE LET inferred == infer_last_out(recs, now)
         IN [err |-> "none",
             rows |-> Summarize(PairLoop(period, inferred, 1, <<>>, <<>>, <<>>)),
             records |-> inferred]

----------------------------------------------------------------------------
(* Aggregator.calculate as one step *)

\* last: the command, its period, the value of now() if it was read, and the
\* row handed to insert if there was one
Cmd(op, period, now, row) == [op |-> op, period |-> period, now |-> now, row |-> row]
NoCmd == Cmd("none", "", <<>>, <<>>)

\* the invocations that are followed step by step
Procs == {1, 2}

\* the locals of an invocation: the program it runs, timestamp, kind (type_),
\* notes, records, period, summary_dict and the list Takt._deferred
Idle ==
    [pc |-> "idle", prog |-> "", timestamp |-> <<>>, kind |-> "", notes |-> <<>>,
     records |-> <<>>, period |-> "", summary_dict |-> <<>>, deferred |-> <<>>]

NoProcs == [p \in Procs |-> Idle]

\* one step of an invocation and the file as the step found it
Event(p, op, seen) == [proc |-> p, op |-> op, seen |-> seen]

AggRecords == {Record(t, k, <<>>) : t \in Times, k \in Kinds}

\* pd.Timestamp.now() is read only when the first record is an in
NowRead(recs) == IF recs # <<>> /\ recs[1].kind = "in" THEN {<<n>> : n \in Nows} ELSE {<<>>}
NowOf(opt) == IF opt = <<>> THEN Ts(2022, 1, 2, 9, 0) ELSE opt[1]

Calculate(period) ==
    /\ last.op = "none"
    /\ \E now \in NowRead(input) :
       \E res \in {calculate(period, input, NowOf(now))} :
            /\ records' = res.records
            /\ out' = res.rows
            /\ err' = res.err
            /\ last' = Cmd("calculate", period, now, <<>>)
    /\ UNCHANGED <<input, file, fexists, mfile, mexists, nchecks, mchecks, console,
                   procs, log>>

----------------------------------------------------------------------------
(* takt.py: FileManager.  A file is the list of its rows as written. *)

\* strip_values: str.strip on the text columns (kinds are written without
\* blanks; notes may carry them)
strip_values(row) == [row EXCEPT !.notes = Strip(@)]

\* FileManager.read(nrows): the first nrows rows (all of them for None,
\* written <<>>), trimmed; a missing file is created empty before it is read
read(f, nrows) ==
    LET n == IF nrows = <<>> \/ nrows[1] > Len(f) THEN Len(f) ELSE nrows[1]
    IN [i \in 1..n |-> strip_values(f[i])]

load(f) == read(f, <<>>)

\* FileManager.save: the rows replace the file
save(recs) == recs

\* insert with records.append(kwargs) in place of records.insert(0, kwargs)
insert_append(f, kwargs) == save(load(f) \o <<kwargs>>)

\* FileManager.insert: the file after insert(**kwargs)
insert(f, kwargs) == save(<<kwargs>> \o load(f))

\* FileManager.first: <<>> for None
first(f) ==
    LET data == read(f, <<1>>)
    IN IF data = <<>> THEN <<>> ELSE <<data[1]>>

\* check_kind with the comparison against "in" in place of "out"
check_kind_stuck(last_kind) ==
    IF last_kind = <<>> \/ last_kind[1].kind = "in" THEN "in" ELSE "out"

\* the kind check() infers from first_row()
check_kind(last_kind) ==
    IF last_kind = <<>> \/ last_kind[1].kind = "out" THEN "in" ELSE "out"

----------------------------------------------------------------------------
(* main.py: load_csv, save_csv, check, clear *)

MRecord(type_, timestamp) == [type |-> type_, timestamp |-> timestamp, notes |-> <<>>]

\* load_csv: a missing file reads as no records
load_csv(exists, f) == IF exists THEN f ELSE <<>>

\* save_csv: header and one line per record
save_csv(recs) == recs

\* type_ of main.py check()
mcheck_type(recs) ==
    IF recs # <<>> /\ recs[1].type = "in" THEN "out" ELSE "in"

\* summary_dict[day] += hours on a defaultdict(float): a new key is added
\* after the keys there are, with 0.0 + hours; the dict is the list of its
\* items in insertion order
dict_add(summary_dict, day, hours) ==
    IF \E k \in DOMAIN summary_dict : summary_dict[k].day = day
    THEN [k \in DOMAIN summary_dict |->
             IF summary_dict[k].day = day
             THEN [day |-> day, hours |-> RatAdd(summary_dict[k].hours, hours)]
             ELSE summary_dict[k]]
    ELSE Append(summary_dict, [day |-> day, hours |-> RatAdd(RatZero, hours)])

\* the for loop of main.py summary from record i on: summary_dict and the
\* values of last_in_time and last_out_time when the loop ends
RECURSIVE msummary_loop(_, _, _, _, _)
msummary_loop(recs, i, last_in_time, last_out_time, summary_dict) ==
    IF i > Len(recs)
    THEN [summary_dict |-> summary_dict,
          last_in_time |-> last_in_time, last_out_time |-> last_out_time]
    ELSE
      LET record == recs[i]
          timestamp == record.timestamp
          day == IsoFormat(DateOf(timestamp))
          li == IF record.type = "in" THEN <<timestamp>> ELSE last_in_time
          lo == IF record.type = "in" THEN last_out_time ELSE <<timestamp>>
      IN IF li # <<>> /\ lo # <<>>
         THEN msummary_loop(recs, i + 1, <<>>, <<>>,
                dict_add(summary_dict, day, Rat(TotalSeconds(lo[1], li[1]), 3600)))
         ELSE msummary_loop(recs, i + 1, li, lo, summary_dict)

\* f"{hours:.2f}": sign, whole part, point, two decimals, rounded half to even
Fmt2f(hours) ==
    LET neg == hours.n < 0
        num == (IF neg THEN -hours.n ELSE hours.n) * 100
        q == num \div hours.d
        rem == num % hours.d
        cents == IF 2 * rem > hours.d \/ (2 * rem = hours.d /\ q % 2 = 1)
                 THEN q + 1 ELSE q
    IN (IF neg THEN <<"-">> ELSE <<>>)
       \o Str(cents \div 100) \o <<".">> \o Fmt0d(cents % 100, 2)

\* the rows added to the table of main.py summary
msummary_table(summary_dict) ==
    [k \in DOMAIN summary_dict |->
        <<summary_dict[k].day, Fmt2f(summary_dict[k].hours)>>]

----------------------------------------------------------------------------
(* Formatting and the summary table *)

\* format_time with the minutes taken from the fraction times 100
format_time_percent(hours) ==
    LET h == zfill(Str(Trunc(hours)), 2)
        m == zfill(Str(Trunc(RatMul(100, RatSub(hours, Rat(Trunc(hours), 1))))), 2)
    IN h \o <<":">> \o m

format_time(hours) ==
    LET h == zfill(Str(Trunc(hours)), 2)
        m == zfill(Str(Trunc(RatMul(60, RatSub(hours, Rat(Trunc(hours), 1))))), 2)
    IN h \o <<":">> \o m

limit == 10

\* one table row of display_summary_table
table_row(row) ==
    LET total_hours == row.hours
        nobs == Cardinality(row.dates)
        avg_hours == IF nobs # 0 THEN RatDivInt(total_hours, nobs) ELSE RatZero
    IN <<row.group, format_time(total_hours), Str(nobs), format_time(avg_hours)>>

\* display_summary_table: the rows added to the table; the loop breaks after
\* the row with index limit
display_summary_table(summary_dict) ==
    LET shown == IF Len(summary_dict) > limit + 1 THEN limit + 1 ELSE Len(summary_dict)
    IN [i \in 1..shown |-> table_row(summary_dict[i])]

----------------------------------------------------------------------------
(* The commands *)

MaxFile == 3

NotesIn == {<<>>, <<"a">>, <<" ", "a">>}

\* the clock moves forward between commands: now() is later than every
\* timestamp a check has stored
Later(now) ==
    /\ \A i \in DOMAIN file : TsLess(file[i].timestamp, now)
    /\ \A i \in DOMAIN mfile : TsLess(mfile[i].timestamp, now)

Init ==
    /\ file = <<>> /\ fexists \in BOOLEAN
    /\ mfile = <<>> /\ mexists \in BOOLEAN
    /\ input = <<>> /\ records = <<>> /\ out = <<>>
    /\ err = "none"
    /\ last = NoCmd
    /\ nchecks = 0 /\ mchecks = 0
    /\ console = <<>>
    /\ procs = NoProcs /\ log = <<>>

\* takt.py check(notes)
Check(now, notes) ==
    /\ Len(file) < MaxFile
    /\ Later(now)
    /\ LET kind == check_kind(first(file))
           row == Record(now, kind, notes)
       IN /\ file' = insert(file, row)
          /\ last' = Cmd("check", "", <<now>>, <<row>>)
          /\ console' = <<[msg |-> "Check", kind |-> kind, timestamp |-> now]>>
    /\ fexists' = TRUE
    /\ nchecks' = nchecks + 1
    /\ err' = "none"
    /\ input' = <<>> /\ records' = <<>> /\ out' = <<>>
    /\ UNCHANGED <<mfile, mexists, mchecks, procs, log>>

\* takt.py summary(), wtd(), mtd(), ytd(): Takt.aggregate(period), then the
\* table, then the deferred note on leaving the with block
Summary(period) ==
    /\ \E now \in NowRead(load(file)) :
       \E res \in {calculate(period, load(file), NowOf(now))} :
            /\ input' = load(file)
            /\ records' = res.records
            /\ out' = res.rows
            /\ err' = res.err
            /\ last' = Cmd("summary", period, now, <<>>)
            /\ console' =
                 IF res.err # "none" THEN <<>>
                 ELSE <<[msg |-> "table", rows |-> display_summary_table(res.rows)]>>
                      \o (IF now # <<>> THEN <<[msg |-> "NOTE"]>> ELSE <<>>)
    /\ fexists' = TRUE
    /\ UNCHANGED <<file, mfile, mexists, nchecks, mchecks, procs, log>>

\* main.py check()
MCheck(now) ==
    /\ Len(mfile) < MaxFile
    /\ Later(now)
    /\ LET recs == load_csv(mexists, mfile)
           type_ == mcheck_type(recs)
       IN /\ mfile' = save_csv(<<MRecord(type_, now)>> \o recs)
          /\ last' = Cmd("mcheck", "", <<now>>, <<MRecord(type_, now)>>)
          /\ console' = <<[msg |-> "Check", kind |-> type_, timestamp |-> now]>>
    /\ mexists' = TRUE
    /\ mchecks' = mchecks + 1
    /\ err' = "none"
    /\ input' = <<>> /\ records' = <<>> /\ out' = <<>>
    /\ UNCHANGED <<file, fexists, nchecks, procs, log>>

\* main.py clear()
MClear ==
    /\ mfile' = <<>>
    /\ mexists' = TRUE
    /\ mchecks' = 0
    /\ last' = Cmd("mclear", "", <<>>, <<>>)
    /\ console' = <<[msg |-> "All records have been cleared."]>>
    /\ err' = "none"
    /\ input' = <<>> /\ records' = <<>> /\ out' = <<>>
    /\ UNCHANGED <<file, fexists, nchecks, procs, log>>

\* main.py summary()
MSummary ==
    /\ \E recs \in {load_csv(mexists, mfile)} :
       \E res \in {msummary_loop(recs, 1, <<>>, <<>>, <<>>)} :
            /\ input' = recs
            /\ records' = recs
            /\ out' = res.summary_dict
            /\ console' = <<[msg |-> "table", rows |-> msummary_table(res.summary_dict)]>>
    /\ last' = Cmd("msummary", "", <<>>, <<>>)
    /\ err' = "none"
    /\ UNCHANGED <<file, fexists, mfile, mexists, nchecks, mchecks, procs, log>>

Next ==
    \/ \E now \in Times, notes \in NotesIn : Check(now, notes)
    \/ \E period \in Periods : Summary(period)
    \/ \E now \in Times : MCheck(now)
    \/ MSummary
    \/ MClear

Spec == Init /\ [][Next]_vars

----------------------------------------------------------------------------
(* Aggregator.calculate on any list of records *)

InitAgg ==
    /\ input \in SeqsUpTo(AggRecords, MaxRecords)
    /\ records = input
    /\ out = <<>>
    /\ err = "none"
    /\ last = NoCmd
    /\ file = <<>> /\ fexists = FALSE
    /\ mfile = <<>> /\ mexists = FALSE
    /\ nchecks = 0 /\ mchecks = 0
    /\ console = <<>>
    /\ procs = NoProcs /\ log = <<>>

NextAgg == \E period \in Periods : Calculate(period)

SpecAgg == InitAgg /\ [][NextAgg]_vars

----------------------------------------------------------------------------
(* The scans of Aggregator.calculate and of main.py summary on one list of
   records, well formed or not: the list is handed to calculate and is what
   records.csv holds *)

MaxScan == 4

\* Saturday 2022-01-01 at 08:00, Sunday 2022-01-02 at 07:00 and 08:00
ScanTimes == {Ts(2022, 1, 1, 8, 0), Ts(2022, 1, 2, 7, 0), Ts(2022, 1, 2, 8, 0)}

ScanRecords == {Record(t, k, <<>>) : t \in ScanTimes, k \in Kinds}

InitScan ==
    /\ input \in SeqsUpTo(ScanRecords, MaxScan)
    /\ records = input
    /\ out = <<>>
    /\ err = "none"
    /\ last = NoCmd
    /\ file = <<>> /\ fexists = FALSE
    /\ mfile = [i \in DOMAIN input |-> MRecord(input[i].kind, input[i].timestamp)]
    /\ mexists = TRUE
    /\ nchecks = 0 /\ mchecks = 0
    /\ console = <<>>
    /\ procs = NoProcs /\ log = <<>>

NextScan ==
    \/ \E period \in Periods : Calculate(period)
    \/ last.op = "none" /\ MSummary

SpecScan == InitScan /\ [][NextScan]_vars

----------------------------------------------------------------------------
(* Two check invocations of one program on one file, step by step.  A step
   is one read or one write of the file, or one print, together with the
   computation on locals that follows it; reads and writes of the whole file
   are taken as atomic. *)

MaxStored == 2

RaceNotes == {<<>>, <<" ", "a">>}

\* the instant of the n-th check that was stored before: Saturday
\* 2022-01-01 at 08:00, 09:00, ...
StoredTime(n) == Ts(2022, 1, 1, 7 + n, 0)

\* the values of now() while the two invocations run, on Sunday 2022-01-02
RaceNows == {Ts(2022, 1, 2, 9, 0), Ts(2022, 1, 2, 9, 30)}

\* the files takt.py check leaves after at most n invocations on an empty file
RECURSIVE StoredFiles(_)
StoredFiles(n) ==
    IF n = 0 THEN {<<>>}
    ELSE LET before == StoredFiles(n - 1)
         IN before \cup
            {insert(f, Record(StoredTime(n), check_kind(first(f)), notes)) :
                f \in {g \in before : Len(g) = n - 1}, notes \in RaceNotes}

\* the files main.py check leaves after at most n invocations on an empty file
RECURSIVE MStoredFiles(_)
MStoredFiles(n) ==
    IF n = 0 THEN {<<>>}
    ELSE LET before == MStoredFiles(n - 1)
         IN before \cup
            {save_csv(<<MRecord(mcheck_type(f), StoredTime(n))>> \o f) :
                f \in {g \in before : Len(g) = n - 1}}

Started(prog) == [p \in Procs |-> [Idle EXCEPT !.pc = "start", !.prog = prog]]

InitRace ==
    /\ \/ /\ procs = Started("takt")
          /\ file \in StoredFiles(MaxStored)
          /\ fexists \in (IF file = <<>> THEN BOOLEAN ELSE {TRUE})
          /\ mfile = <<>> /\ mexists = FALSE
       \/ /\ procs = Started("main")
          /\ mfile \in MStoredFiles(MaxStored)
          /\ mexists \in (IF mfile = <<>> THEN BOOLEAN ELSE {TRUE})
          /\ file = <<>> /\ fexists = FALSE
    /\ log = <<>>
    /\ input = <<>> /\ records = <<>> /\ out = <<>>
    /\ err = "none"
    /\ last = NoCmd
    /\ nchecks = 0 /\ mchecks = 0
    /\ console = <<>>

\* a clock does not go back: now is not before a value another invocation
\* has read
ClockAt(now) ==
    \A q \in Procs : procs[q].timestamp # <<>> => ~TsLess(now, procs[q].timestamp[1])

\* takt.py check(notes): t = Takt(); timestamp = pd.Timestamp.now()
CheckNow(p, now, notes) ==
    /\ procs[p].pc = "start" /\ procs[p].prog = "takt"
    /\ ClockAt(now)
    /\ procs' = [procs EXCEPT ![p] =
                   [@ EXCEPT !.pc = "first", !.timestamp = <<now>>, !.notes = notes]]
    /\ log' = Append(log, Event(p, "now", file))
    /\ UNCHANGED <<file, fexists, mfile, mexists, input, records, out, err, last,
                   nchecks, mchecks, console>>

\* last_kind = t.first_row() and the kind inferred from it; the read creates
\* a missing file
CheckFirst(p) ==
    /\ procs[p].pc = "first"
    /\ procs' = [procs EXCEPT ![p] =
                   [@ EXCEPT !.pc = "load", !.kind = check_kind(first(file))]]
    /\ fexists' = TRUE
    /\ log' = Append(log, Event(p, "first", file))
    /\ UNCHANGED <<file, mfile, mexists, input, records, out, err, last,
                   nchecks, mchecks, console>>

\* t.insert_row: records = self.load(); records.insert(0, kwargs)
CheckLoad(p) ==
    /\ procs[p].pc = "load"
    /\ procs' = [procs EXCEPT ![p] =
                   [@ EXCEPT !.pc = "save",
                             !.records = <<Record(procs[p].timestamp[1], procs[p].kind,
                                                  procs[p].notes)>>
                                         \o load(file)]]
    /\ fexists' = TRUE
    /\ log' = Append(log, Event(p, "load", file))
    /\ UNCHANGED <<file, mfile, mexists, input, records, out, err, last,
                   nchecks, mchecks, console>>

\* CheckSave writing its record in front of what the file holds at the save
CheckSave_merge(p) ==
    /\ procs[p].pc = "save"
    /\ file' = save(<<procs[p].records[1]>> \o load(file))
    /\ fexists' = TRUE
    /\ procs' = [procs EXCEPT ![p] = [@ EXCEPT !.pc = "print"]]
    /\ log' = Append(log, Event(p, "save", file))
    /\ UNCHANGED <<mfile, mexists, input, records, out, err, last,
                   nchecks, mchecks, console>>

\* t.insert_row: self.save(records)
CheckSave(p) ==
    /\ procs[p].pc = "save"
    /\ file' = save(procs[p].records)
    /\ fexists' = TRUE
    /\ procs' = [procs EXCEPT ![p] = [@ EXCEPT !.pc = "print"]]
    /\ log' = Append(log, Event(p, "save", file))
    /\ UNCHANGED <<mfile, mexists, input, records, out, err, last,
                   nchecks, mchecks, console>>

\* t.print_console("Check KIND at timestamp")
CheckPrint(p) ==
    /\ procs[p].pc = "print" /\ procs[p].prog = "takt"
    /\ console' = Append(console, [msg |-> "Check", kind |-> procs[p].kind,
                                    timestamp |-> procs[p].timestamp[1]])
    /\ procs' = [procs EXCEPT ![p] = [@ EXCEPT !.pc = "done"]]
    /\ log' = Append(log, Event(p, "print", file))
    /\ UNCHANGED <<file, fexists, mfile, mexists, input, records, out, err, last,
                   nchecks, mchecks>>

\* main.py check(): records = load_csv(filename), now, type_ and
\* records.insert(0, ...)
MCheckLoad(p, now) ==
    /\ procs[p].pc = "start" /\ procs[p].prog = "main"
    /\ ClockAt(now)
    /\ \E recs \in {load_csv(mexists, mfile)} :
         procs' = [procs EXCEPT ![p] =
                     [@ EXCEPT !.pc = "msave", !.timestamp = <<now>>,
                               !.kind = mcheck_type(recs),
                               !.records = <<MRecord(mcheck_type(recs), now)>> \o recs]]
    /\ log' = Append(log, Event(p, "load", load_csv(mexists, mfile)))
    /\ UNCHANGED <<file, fexists, mfile, mexists, input, records, out, err, last,
                   nchecks, mchecks, console>>

\* main.py check(): save_csv(filename, records)
MCheckSave(p) ==
    /\ procs[p].pc = "msave"
    /\ mfile' = save_csv(procs[p].records)
    /\ mexists' = TRUE
    /\ procs' = [procs EXCEPT ![p] = [@ EXCEPT !.pc = "print"]]
    /\ log' = Append(log, Event(p, "save", load_csv(mexists, mfile)))
    /\ UNCHANGED <<file, fexists, input, records, out, err, last,
                   nchecks, mchecks, console>>

\* main.py check(): console.print("Check type_ at now")
MCheckPrint(p) ==
    /\ procs[p].pc = "print" /\ procs[p].prog = "main"
    /\ console' = Append(console, [msg |-> "Check", kind |-> procs[p].kind,
                                    timestamp |-> procs[p].timestamp[1]])
    /\ procs' = [procs EXCEPT ![p] = [@ EXCEPT !.pc = "done"]]
    /\ log' = Append(log, Event(p, "print", load_csv(mexists, mfile)))
    /\ UNCHANGED <<file, fexists, mfile, mexists, input, records, out, err, last,
                   nchecks, mchecks>>

NextRace ==
    \E p \in Procs :
        \/ \E now \in RaceNows, notes \in RaceNotes : CheckNow(p, now, notes)
        \/ CheckFirst(p)
        \/ CheckLoad(p)
        \/ CheckSave(p)
        \/ CheckPrint(p)
        \/ \E now \in RaceNows : MCheckLoad(p, now)
        \/ MCheckSave(p)
        \/ MCheckPrint(p)

SpecRace == InitRace /\ [][NextRace]_vars

----------------------------------------------------------------------------
(* A summary command of takt.py, step by step: entering the with block,
   Takt.aggregate, display_summary_table, leaving the with block *)

\* the function infer_last_out appends to Aggregator.deferred, written as
\* the message it prints when called
NoteMsg == [msg |-> "NOTE"]

\* agg_deferred appending the function whatever the kind of the first record
agg_deferred_always(recs) == <<NoteMsg>>

\* Aggregator.deferred after calculate(recs), recs not empty
agg_deferred(recs) == IF recs[1].kind = "in" THEN <<NoteMsg>> ELSE <<>>

\* Deferred.__exit__: every function of the list is called, in order; the
\* result is what they print
exit_calls(deferred) == deferred

\* Deferred.__exit__: deferred[:] = []
exit_clear(deferred) == <<>>

InitSummary ==
    /\ file \in StoredFiles(MaxStored)
    /\ fexists \in (IF file = <<>> THEN BOOLEAN ELSE {TRUE})
    /\ mfile = <<>> /\ mexists = FALSE
    /\ procs = NoProcs /\ log = <<>>
    /\ input = <<>> /\ records = <<>> /\ out = <<>>
    /\ err = "none"
    /\ last = NoCmd
    /\ nchecks = 0 /\ mchecks = 0
    /\ console = <<>>

\* summary(), wtd(), ytd(), mtd(): t = Takt(); with t.deferred(): a command
\* starts when no other runs; the locals of one that has ended are gone
SumEnter(p, period) ==
    /\ \A q \in Procs : procs[q].pc \in {"idle", "done"}
    /\ procs' = [NoProcs EXCEPT ![p] =
                   [Idle EXCEPT !.pc = "entered", !.prog = "takt", !.period = period]]
    /\ log' = <<Event(p, "enter", file)>>
    /\ console' = <<>>
    /\ UNCHANGED <<file, fexists, mfile, mexists, input, records, out, err, last,
                   nchecks, mchecks>>

\* summary_dict = t.aggregate(period): all_rows(), calculate, and
\* self._deferred.extend(agg.deferred) when calculate returns
SumAggregate(p) ==
    /\ procs[p].pc = "entered"
    /\ \E recs \in {load(file)} :
       \E now \in NowRead(recs) :
       \E res \in {calculate(procs[p].period, recs, NowOf(now))} :
            /\ input' = recs
            /\ records' = res.records
            /\ out' = res.rows
            /\ err' = res.err
            /\ last' = Cmd("summary", procs[p].period, now, <<>>)
            /\ procs' = [procs EXCEPT ![p] =
                 IF res.err # "none"
                 THEN [@ EXCEPT !.pc = "raised"]
                 ELSE [@ EXCEPT !.pc = "aggregated",
                                !.records = res.records,
                                !.summary_dict = res.rows,
                                !.deferred = @ \o agg_deferred(recs)]]
    /\ fexists' = TRUE
    /\ log' = Append(log, Event(p, "aggregate", file))
    /\ UNCHANGED <<file, mfile, mexists, nchecks, mchecks, console>>

\* display_summary_table(summary_dict)
SumDisplay(p) ==
    /\ procs[p].pc = "aggregated"
    /\ console' = Append(console,
                     [msg |-> "table",
                      rows |-> display_summary_table(procs[p].summary_dict)])
    /\ procs' = [procs EXCEPT ![p] = [@ EXCEPT !.pc = "displayed"]]
    /\ log' = Append(log, Event(p, "display", file))
    /\ UNCHANGED <<file, fexists, mfile, mexists, input, records, out, err, last,
                   nchecks, mchecks>>

\* Deferred.__exit__, after the table or with the exception of aggregate
SumExit(p) ==
    /\ procs[p].pc \in {"displayed", "raised"}
    /\ console' = console \o exit_calls(procs[p].deferred)
    /\ procs' = [procs EXCEPT ![p] =
                   [@ EXCEPT !.pc = "done", !.deferred = exit_clear(@)]]
    /\ log' = Append(log, Event(p, "exit", file))
    /\ UNCHANGED <<file, fexists, mfile, mexists, input, records, out, err, last,
                   nchecks, mchecks>>

NextSummary ==
    \E p \in Procs :
        \/ \E period \in Periods : SumEnter(p, period)
        \/ SumAggregate(p)
        \/ SumDisplay(p)
        \/ SumExit(p)

SpecSummary == InitSummary /\ [][NextSummary]_vars

----------------------------------------------------------------------------
(* display_summary_table on one row of any total and any number of days *)

MaxEighths == 24

\* totals k/8 hours and 100 + k/8 hours: binary fractions, on which the
\* floating point of the code and the exact values of the model agree
FmtHours == {Rat(k, 8) : k \in 0..MaxEighths} \cup {Rat(800 + k, 8) : k \in 0..MaxEighths}

FmtDates == SUBSET {DateOf(Ts(2022, 1, 1, 0, 0)), DateOf(Ts(2022, 1, 2, 0, 0))}

InitFmt ==
    /\ out \in {<<[group |-> YearRef_group(Ts(2022, 1, 1, 0, 0)), hours |-> h,
                  dates |-> D, notes |-> {<<>>},
                  avg_hours |-> IF D = {} THEN RatZero ELSE RatDivInt(h, Cardinality(D))]>> :
                h \in FmtHours, D \in FmtDates}
    /\ input = <<>> /\ records = <<>>
    /\ err = "none"
    /\ last = NoCmd
    /\ file = <<>> /\ fexists = FALSE
    /\ mfile = <<>> /\ mexists = FALSE
    /\ nchecks = 0 /\ mchecks = 0
    /\ console = <<>>
    /\ procs = NoProcs /\ log = <<>>

Display ==
    /\ last.op = "none"
    /\ console' = <<[msg |-> "table", rows |-> display_summary_table(out)]>>
    /\ last' = Cmd("display", "", <<>>, <<>>)
    /\ UNCHANGED <<file, fexists, mfile, mexists, input, records, out, err,
                   nchecks, mchecks, procs, log>>

NextFmt == Display

SpecFmt == InitFmt /\ [][NextFmt]_vars

----------------------------------------------------------------------------
(* Properties *)

\* the number a string of digits writes
RECURSIVE ParseNat(_)
ParseNat(s) == IF s = <<>> THEN 0
               ELSE ParseNat(SubSeq(s, 1, Len(s) - 1)) * 10 + (Ord(s[Len(s)]) - 48)

IsDigits(s) == \A i \in DOMAIN s : Ord(s[i]) \in 48..57

\* cell is HH:MM for the whole minutes of hours >= 0: HH the whole hours in
\* at least two digits without further leading zeros, MM in exactly two
IsHHMM(cell, hours) ==
    LET minutes == (hours.n * 60) \div hours.d
        hh == SubSeq(cell, 1, Len(cell) - 3)
        mm == SubSeq(cell, Len(cell) - 1, Len(cell))
    IN /\ Len(cell) >= 5
       /\ cell[Len(cell) - 2] = ":"
       /\ IsDigits(hh) /\ IsDigits(mm)
       /\ ParseNat(hh) = minutes \div 60
       /\ ParseNat(mm) = minutes % 60
       /\ ParseNat(mm) \in 0..59
       /\ (Len(hh) > 2 => hh[1] # "0")

\* C9: after display_summary_table, the Hours cell of a row with hours >= 0
\* is HH:MM with HH the integer part of hours and MM the integer part of the
\* fraction times 60, zero-padded to two digits (1.5 gives 01:30, 0.0 gives
\* 00:00); the Avg Hours cell formats total / number of distinct days, or 0
\* when there are no days.
C9_FormatTime ==
    last.op = "display" =>
        /\ Len(console[1].rows) = Len(out)
        /\ \A i \in DOMAIN out :
             LET cells == console[1].rows[i]
                 nobs == Cardinality(out[i].dates)
             IN out[i].hours.n >= 0 =>
                  /\ IsHHMM(cells[2], out[i].hours)
                  /\ (RatEq(out[i].hours, Rat(3, 2)) => cells[2] = <<"0", "1", ":", "3", "0">>)
                  /\ (RatEq(out[i].hours, RatZero) => cells[2] = <<"0", "0", ":", "0", "0">>)
                  /\ IF nobs = 0
                     THEN cells[4] = <<"0", "0", ":", "0", "0">>
                     ELSE IsHHMM(cells[4], Rat(out[i].hours.n, out[i].hours.d * nobs))

\* C9 witness: a total of 1.5 hours over no days was shown as 01:30 and 00:00
C9_Witness ==
    /\ last.op = "display"
    /\ RatEq(out[1].hours, Rat(3, 2)) /\ out[1].dates = {}
    /\ console[1].rows[1][2] = <<"0", "1", ":", "3", "0">>
    /\ console[1].rows[1][4] = <<"0", "0", ":", "0", "0">>

----------------------------------------------------------------------------
(* Properties of Aggregator.calculate *)

\* timestamps do not increase along the list
NewestFirst(recs) ==
    \A i \in 1..(Len(recs) - 1) : ~TsLess(recs[i].timestamp, recs[i + 1].timestamp)

\* the pairs the scan of the list triggers, in the order it triggers them
Pairs == PairLoop(last.period, records, 1, <<>>, <<>>, <<>>)

RECURSIVE SumSeconds(_, _)
SumSeconds(secs, J) ==
    IF J = {} THEN 0
    ELSE LET j == CHOOSE x \in J : TRUE
         IN secs[j] + SumSeconds(secs, J \ {j})

\* the seconds a duration in hours stands for (durations here are whole seconds)
Seconds(hours) == (hours.n * 3600) \div hours.d

\* one row per distinct key of the pairs, its hours the sum and its dates
\* the set of the dates of the pairs with that key
RowsMatchPairs(rows, pairs) ==
    LET secs == [j \in DOMAIN pairs |-> Seconds(pairs[j].hours)]
        With(g) == {j \in DOMAIN pairs : pairs[j].group = g}
    IN /\ {rows[i].group : i \in DOMAIN rows} = {pairs[j].group : j \in DOMAIN pairs}
       /\ \A i, k \in DOMAIN rows : i # k => rows[i].group # rows[k].group
       /\ \A i \in DOMAIN rows :
            /\ RatEq(rows[i].hours, Rat(SumSeconds(secs, With(rows[i].group)), 3600))
            /\ rows[i].dates = {pairs[j].dates[1] : j \in With(rows[i].group)}
       /\ SumSeconds([i \in DOMAIN rows |-> Seconds(rows[i].hours)], DOMAIN rows)
            = SumSeconds(secs, DOMAIN pairs)

\* C1: for every granularity and every newest-first list, calculate returns
\* one row per distinct period key among the triggered pairs, with the summed
\* hours and the set of dates of the pairs of that key, so the hours of all
\* rows add up to the durations of all pairs.
C1_OneRowPerKey ==
    (last.op = "calculate" /\ NewestFirst(input)) =>
        /\ err = "none"
        /\ RowsMatchPairs(out, Pairs)

\* C1 on the lists calculate does not fail on: the rows match the pairs
C1_RowsMatchPairsWhenReturned ==
    (last.op = "calculate" /\ err = "none") => RowsMatchPairs(out, Pairs)

\* kinds alternate out, in, out, in, ... and timestamps decrease
WellFormed(recs) ==
    /\ \A i \in DOMAIN recs : recs[i].kind = IF i % 2 = 1 THEN "out" ELSE "in"
    /\ \A i \in 1..(Len(recs) - 1) : TsLess(recs[i + 1].timestamp, recs[i].timestamp)

\* C2: daily grouping of a well-formed newest-first list pairs each out with
\* the in right after it; the pair adds its non-negative duration out - in to
\* the row of the ISO date of the in record; [out@08:00, in@07:00] on one day
\* gives exactly one row with 1.0 hours and that one date.
C2_DailyPairs ==
    (last.op = "calculate" /\ last.period = "daily" /\ WellFormed(input)) =>
        LET n == Len(input) \div 2
            Day(j) == IsoFormat(input[2 * j].timestamp)
            dur == [j \in 1..n |->
                      TotalSeconds(input[2 * j - 1].timestamp, input[2 * j].timestamp)]
            On(g) == {j \in 1..n : Day(j) = g}
        IN /\ n >= 1 => err = "none"
           /\ \A j \in 1..n :
                /\ dur[j] >= 0
                /\ Cardinality({i \in DOMAIN out : out[i].group = Day(j)}) = 1
           /\ \A i \in DOMAIN out :
                /\ On(out[i].group) # {}
                /\ RatEq(out[i].hours, Rat(SumSeconds(dur, On(out[i].group)), 3600))
                /\ out[i].dates = {DateOf(input[2 * j].timestamp) : j \in On(out[i].group)}
           /\ (/\ Len(input) = 2
               /\ DateOf(input[1].timestamp) = DateOf(input[2].timestamp)
               /\ dur[1] = 3600)
              => /\ Len(out) = 1
                 /\ RatEq(out[1].hours, Rat(1, 1))
                 /\ out[1].dates = {DateOf(input[2].timestamp)}

\* C2 witness: [out@08:00, in@07:00] of one day gave one row of 1.0 hours
C2_Witness ==
    /\ last.op = "calculate" /\ last.period = "daily"
    /\ input = <<Record(Ts(2022, 1, 2, 8, 0), "out", <<>>),
                 Record(Ts(2022, 1, 2, 7, 0), "in", <<>>)>>
    /\ Len(out) = 1
    /\ RatEq(out[1].hours, Rat(1, 1))
    /\ out[1].dates = {DateOf(Ts(2022, 1, 2, 0, 0))}

\* the ISO week a date lies in, counted from 0001-01-01 (a Monday)
IsoWeekIndex(t) == (ToOrdinal(t) - 1) \div 7

\* two in/out pairs of one hour each, on two different days of one ISO week
TwoHoursInOneIsoWeek(recs) ==
    /\ Len(recs) = 4 /\ WellFormed(recs)
    /\ \A j \in 1..2 :
         /\ DateOf(recs[2 * j - 1].timestamp) = DateOf(recs[2 * j].timestamp)
         /\ TotalSeconds(recs[2 * j - 1].timestamp, recs[2 * j].timestamp) = 3600
    /\ DateOf(recs[1].timestamp) # DateOf(recs[3].timestamp)
    /\ IsoWeekIndex(recs[1].timestamp) = IsoWeekIndex(recs[3].timestamp)

\* C3: with weekly grouping, two pairs of one hour each on two different days
\* of the same ISO week are merged into one row with 2.0 hours, two distinct
\* days and an average of 1.0 hours.
C3_SameIsoWeekMerged ==
    (last.op = "calculate" /\ last.period = "wtd" /\ TwoHoursInOneIsoWeek(input)) =>
        /\ Len(out) = 1
        /\ RatEq(out[1].hours, Rat(2, 1))
        /\ Cardinality(out[1].dates) = 2
        /\ RatEq(out[1].avg_hours, Rat(1, 1))

\* C5: aggregating an empty list returns an empty list of rows and raises no
\* exception.
C5_EmptyGivesEmpty ==
    (last.op = "calculate" /\ input = <<>>) => (err = "none" /\ out = <<>>)

\* the elements of a list without repetitions, in the order of first occurrence
RECURSIVE FirstSeen(_)
FirstSeen(q) ==
    IF q = <<>> THEN <<>>
    ELSE LET before == FirstSeen(SubSeq(q, 1, Len(q) - 1))
         IN IF q[Len(q)] \in Range(before) THEN before ELSE Append(before, q[Len(q)])

Groups(rows) == [i \in DOMAIN rows |-> rows[i].group]

\* C8 as claimed: the rows come in the order in which their keys were first
\* met in the scan, for every list, newest-first or not.
C8_FirstEncounterOrder ==
    last.op = "calculate" => Groups(out) = FirstSeen(Groups(Pairs))

\* C8: the rows come in descending order of their period key; that is the
\* order of first encounter when the timestamps of the scanned list do not
\* increase.
C8_DescendingKeyOrder ==
    last.op = "calculate" =>
        /\ \A i, k \in DOMAIN out : i < k => StrLess(out[k].group, out[i].group)
        /\ NewestFirst(records) => Groups(out) = FirstSeen(Groups(Pairs))

\* C8 witness: two rows whose order is not the order of first encounter
C8_Witness ==
    /\ last.op = "calculate" /\ err = "none"
    /\ Len(out) = 2
    /\ Groups(out) # FirstSeen(Groups(Pairs))
    /\ StrLess(out[2].group, out[1].group)

SameKind(recs, kind) == recs # <<>> /\ \A i \in DOMAIN recs : recs[i].kind = kind

\* C10 as claimed: a non-empty list of records of one kind only, all in or
\* all out, gives no row and no error.
C10_SameKindNoPair ==
    (last.op = "calculate" /\ (SameKind(input, "in") \/ SameKind(input, "out"))) =>
        (err = "none" /\ out = <<>>)

\* C10: a list of out records only gives no row and no error; a list of in
\* records only gives exactly one row, the pair of the closing out inferred
\* at the call and the first (newest) in record.
C10_OnlyInferredPair ==
    last.op = "calculate" =>
        /\ SameKind(input, "out") => (err = "none" /\ out = <<>>)
        /\ SameKind(input, "in") =>
             /\ err = "none"
             /\ Len(out) = 1
             /\ out[1].group = time_agg(last.period, input[1].timestamp)
             /\ RatEq(out[1].hours,
                      Rat(TotalSeconds(last.now[1], input[1].timestamp), 3600))
             /\ out[1].dates = {DateOf(input[1].timestamp)}

\* C10 witness: three in records gave the one row of the inferred pair
C10_Witness ==
    /\ last.op = "calculate"
    /\ Len(input) = 3 /\ SameKind(input, "in")
    /\ Len(out) = 1
    /\ out[1].hours.n > 0

----------------------------------------------------------------------------
(* The pairing rule *)

Min(S) == CHOOSE x \in S : \A y \in S : x <= y
Max(S) == CHOOSE x \in S : \A y \in S : y <= x

\* the positions at which the rule emits a pair, in scan order: each is the
\* first position after the previous one (after r, at the start) up to which
\* records of both kinds have been scanned
RECURSIVE Emitters(_, _)
Emitters(kinds, r) ==
    LET C == {i \in (r + 1)..Len(kinds) : {kinds[j] : j \in (r + 1)..i} = Kinds}
    IN IF C = {} THEN <<>> ELSE <<Min(C)>> \o Emitters(kinds, Min(C))

\* the position of the last reset when k records have been scanned, 0 for none
LastReset(E, k) == Max({0} \cup {e \in Range(E) : e <= k})

\* the position of the most recently scanned record of a kind among the
\* positions r+1..k, 0 for none
MostRecent(kinds, kind, r, k) == Max({0} \cup {j \in (r + 1)..k : kinds[j] = kind})

\* what last_in / last_out hold when k records have been scanned
Held(kinds, ts, E, kind, k) ==
    LET j == MostRecent(kinds, kind, LastReset(E, k), k)
    IN IF j = 0 THEN <<>> ELSE <<ts[j]>>

\* the positions of the in and of the out record joined by the n-th pair
Joined(kinds, E, kind, n) ==
    MostRecent(kinds, kind, IF n = 1 THEN 0 ELSE E[n - 1], E[n])

\* the signed seconds of the n-th pair
PairSeconds(kinds, ts, E, n) ==
    TotalSeconds(ts[Joined(kinds, E, "out", n)], ts[Joined(kinds, E, "in", n)])

\* the n-th pair joins the record that emits it and the record before it
Adjacent(kinds, E, n) ==
    {Joined(kinds, E, "in", n), Joined(kinds, E, "out", n)} = {E[n] - 1, E[n]}

\* the scan of calculate follows the rule on the list recs
ScanOfCalculate(recs, kinds, ts, E) ==
    /\ \A k \in 0..Len(recs) :
         LoopVars(SubSeq(recs, 1, k), 1, <<>>, <<>>)
           = [last_in_time |-> Held(kinds, ts, E, "in", k),
              last_out_time |-> Held(kinds, ts, E, "out", k)]
    /\ Len(Pairs) = Len(E)
    /\ \A n \in DOMAIN E :
         /\ Pairs[n].group = time_agg(last.period, ts[E[n]])
         /\ RatEq(Pairs[n].hours, Rat(PairSeconds(kinds, ts, E, n), 3600))
         /\ Pairs[n].dates = <<DateOf(ts[E[n]])>>
         /\ Adjacent(kinds, E, n)
    /\ RowsMatchPairs(out, Pairs)

\* the scan of main.py summary follows the rule on the list recs
ScanOfSummary(recs, kinds, ts, E) ==
    LET day == [n \in DOMAIN E |-> IsoFormat(ts[E[n]])]
        secs == [n \in DOMAIN E |-> PairSeconds(kinds, ts, E, n)]
    IN /\ \A k \in 0..Len(recs) :
            LET end == msummary_loop(SubSeq(recs, 1, k), 1, <<>>, <<>>, <<>>)
            IN /\ end.last_in_time = Held(kinds, ts, E, "in", k)
               /\ end.last_out_time = Held(kinds, ts, E, "out", k)
       /\ [k \in DOMAIN out |-> out[k].day] = FirstSeen(day)
       /\ \A k \in DOMAIN out :
            RatEq(out[k].hours,
                  Rat(SumSeconds(secs, {n \in DOMAIN E : day[n] = out[k].day}), 3600))
       /\ \A n \in DOMAIN E : Adjacent(kinds, E, n)

\* in, in, out with decreasing timestamps
TwoInsThenOut(recs, kinds, ts) ==
    /\ kinds = <<"in", "in", "out">>
    /\ TsLess(ts[2], ts[1]) /\ TsLess(ts[3], ts[2])

C11_NegativeBucket ==
    /\ last.op = "calculate" /\ last.period = "daily"
    /\ \E k \in DOMAIN out : out[k].hours.n < 0

----------------------------------------------------------------------------
(* Properties of the commands *)

\* C4: a summary on a file whose first record is an in gives the rows it
\* would give if an out record stamped with the current time stood before
\* that record; any summary leaves the stored records as they were, and no
\* synthesized record is among them.
C4_AggregateLeavesFile ==
    [][last'.op = "summary" =>
         /\ file' = file
         /\ \A i \in DOMAIN file' : file'[i].notes # InferredNote
         /\ (file # <<>> /\ file[1].kind = "in") =>
              /\ last'.now # <<>>
              /\ err' = "none"
              /\ out' = calculate(last'.period,
                                  <<Record(last'.now[1], "out", <<>>)>> \o load(file),
                                  last'.now[1]).rows]_vars

\* C4 witness: a summary of a file of three records, the newest an in, whose
\* list in memory got the closing out while the file kept its three records
C4_Witness ==
    /\ last.op = "summary"
    /\ Len(file) = 3 /\ file[1].kind = "in"
    /\ Len(records) = 4 /\ records[1].notes = InferredNote
    /\ Len(out) >= 1

Alternate(kinds) == \A i \in 1..(Len(kinds) - 1) : kinds[i] # kinds[i + 1]

\* n check commands on a file that was empty or missing left n records of
\* alternating kinds, the oldest an in, the newest an in iff n is odd
AfterChecks(kinds, n) ==
    /\ Len(kinds) = n
    /\ Alternate(kinds)
    /\ n > 0 => /\ kinds[n] = "in"
                /\ (kinds[1] = "in" <=> n % 2 = 1)

\* C6: check records an in when the file has no record or its first record
\* is an out, and an out when the first record is an in; so n checks from an
\* empty or missing file leave n records of strictly alternating kinds, the
\* oldest an in, the newest an in iff n is odd.
C6_CheckToggles ==
    /\ AfterChecks([i \in DOMAIN file |-> file[i].kind], nchecks)
    /\ AfterChecks([i \in DOMAIN mfile |-> mfile[i].type], mchecks)
    /\ last.op = "check" =>
         /\ file[1] = last.row[1]
         /\ file[1].kind = IF Len(file) = 1 \/ file[2].kind = "out" THEN "in" ELSE "out"
         /\ console[1].kind = file[1].kind
    /\ last.op = "mcheck" =>
         /\ mfile[1].type = IF Len(mfile) = 1 \/ mfile[2].type = "out" THEN "in" ELSE "out"
         /\ console[1].kind = mfile[1].type

\* C6 witness: the third check of a file recorded an in
C6_Witness ==
    /\ last.op = "check"
    /\ nchecks = 3 /\ Len(file) = 3
    /\ file[1].kind = "in" /\ file[2].kind = "out" /\ file[3].kind = "in"

\* old is what remains of new after its first records
IsSuffix(old, new) ==
    /\ Len(old) <= Len(new)
    /\ old = SubSeq(new, Len(new) - Len(old) + 1, Len(new))

----------------------------------------------------------------------------
(* Properties of two check invocations on one file *)

AllDone == \A p \in Procs : procs[p].pc = "done"

\* the program both invocations run and the file they share, as it is now
Prog == procs[1].prog
Disk == IF Prog = "takt" THEN file ELSE mfile

\* the records a file holds, as the program reads them
ReadBack(f) == IF Prog = "takt" THEN load(f) ELSE f
AsRead(row) == IF Prog = "takt" THEN strip_values(row) ELSE row
KindOf(row) == IF Prog = "takt" THEN row.kind ELSE row.type

\* the records stored before the two invocations
Stored0 == ReadBack(log[1].seen)

\* the record an invocation has put in front of the records it loaded
Row(p) == procs[p].records[1]

\* the place in log of a step of an invocation, and of its first read
Pos(p, op) == CHOOSE i \in DOMAIN log : log[i].proc = p /\ log[i].op = op
FirstRead(p) ==
    Min({i \in DOMAIN log : log[i].proc = p /\ log[i].op \in {"first", "load"}})

\* the kind a check takes after the records recs
Toggle(recs) == IF recs # <<>> /\ KindOf(recs[1]) = "in" THEN "out" ELSE "in"

BothLoadBeforeSave == \A p, q \in Procs : Pos(p, "load") < Pos(q, "save")

\* C12: when two check invocations on one file have both loaded the records
\* before either saves, the file ends as the records stored before with
\* only the record of the invocation that saved last in front; the record
\* of the other is not in the file, and both invocations have taken and
\* printed the same kind.  When one invocation has saved before the other
\* first reads the file, both records are stored in front of the records
\* stored before, the later one first, with alternating kinds.
C12_LastWriterWins ==
    AllDone =>
        /\ BothLoadBeforeSave =>
              \E w \in Procs :
                  /\ \A q \in Procs : Pos(q, "save") <= Pos(w, "save")
                  /\ Disk = <<Row(w)>> \o Stored0
                  /\ \A q \in Procs \ {w} :
                       AsRead(Row(q)) # AsRead(Row(w)) =>
                           AsRead(Row(q)) \notin Range(ReadBack(Disk))
                  /\ \A q \in Procs : procs[q].kind = Toggle(Stored0)
                  /\ Len(console) = 2
                  /\ console[1].kind = console[2].kind
                  /\ console[1].kind = Toggle(Stored0)
        /\ \A p, q \in Procs :
              (p # q /\ Pos(p, "save") < FirstRead(q)) =>
                  /\ ReadBack(Disk) = <<AsRead(Row(q)), AsRead(Row(p))>> \o Stored0
                  /\ procs[p].kind = Toggle(Stored0)
                  /\ procs[q].kind = Toggle(<<Row(p)>>)
                  /\ procs[q].kind # procs[p].kind
                  /\ Len(console) = 2
                  /\ console[1].kind # console[2].kind

\* C12 witness: two takt.py checks on a file of one in record both loaded
\* before either saved; both printed out and the file has two records, the
\* record of invocation 2 in front and that of invocation 1 missing
C12_Witness ==
    /\ AllDone /\ Prog = "takt"
    /\ BothLoadBeforeSave
    /\ Pos(1, "save") < Pos(2, "save")
    /\ Len(Stored0) = 1 /\ Len(file) = 2
    /\ Row(1) # Row(2)
    /\ file[1] = Row(2)
    /\ console[1].kind = "out" /\ console[2].kind = "out"

\* two main.py checks, one after the other, on an empty file: out, in stored
C12_SequentialWitness ==
    /\ AllDone /\ Prog = "main"
    /\ Pos(1, "save") < FirstRead(2)
    /\ Stored0 = <<>>
    /\ Len(mfile) = 2 /\ mfile[1].type = "out" /\ mfile[2].type = "in"

----------------------------------------------------------------------------
(* Properties of the deferred note *)

\* the places of a message in what was printed
Printed(what) == {i \in DOMAIN console : console[i].msg = what}

\* C13: in a summary command (day, week, month, year) nothing of the note
\* is printed before the with block is left; when the command has ended,
\* the note was printed exactly once, after the table, if the newest stored
\* record is an in, and not at all if it is an out, and the deferred list of
\* the Takt object is empty.
C13_NoteOnceAfterTable ==
    \A p \in Procs :
        /\ procs[p].pc \in {"entered", "aggregated", "displayed", "raised"} =>
              Printed("NOTE") = {}
        /\ procs[p].pc \in {"entered", "raised"} => procs[p].deferred = <<>>
        /\ (procs[p].pc = "done" /\ file # <<>>) =>
              /\ procs[p].deferred = <<>>
              /\ Cardinality(Printed("table")) = 1
              /\ file[1].kind = "in" =>
                    /\ Cardinality(Printed("NOTE")) = 1
                    /\ \A i \in Printed("NOTE"), j \in Printed("table") : j < i
              /\ file[1].kind = "out" => Printed("NOTE") = {}

\* C13 witness: a week summary of a file whose newest record is an in has
\* ended, the table and then the note were printed and the list is empty
C13_Witness ==
    \E p \in Procs :
        /\ procs[p].pc = "done" /\ procs[p].period = "wtd"
        /\ Len(file) = 1 /\ file[1].kind = "in"
        /\ Len(console) = 2
        /\ console[1].msg = "table" /\ console[2].msg = "NOTE"
        /\ procs[p].deferred = <<>>
        /\ log[Len(log)].op = "exit"

====
